---- MODULE Spec2Model ----
(***************************************************************************)
(* Model of python/tvm/relay/backend/compile_engine.py: the shape          *)
(* normalizer (get_shape), the strategy resolver                           *)
(* (get_valid_implementations), the implementation selector                *)
(* (select_implementation), the call lowerer (lower_call), alone and       *)
(* called concurrently, and the CompileEngine cache front end (lower,      *)
(* lower_shape_func, jit, clear, items).                                   *)
(***************************************************************************)
EXTENDS Integers, Sequences, FiniteSets, TLC

(***************************************************************************)
(* Bounds and input domains.                                               *)
(***************************************************************************)
\* Largest number of implementations registered in one strategy.
MaxImpls == 2
\* Largest number of implementations in a strategy handed to lower_call.
MaxCallImpls == 2
\* Number of threads that issue CompileEngine requests.
NumThreads == 2
\* Number of CompileEngine requests issued in one behaviour.
MaxRequests == 3

\* plevel values of the registered implementations.
PLevels == {10, 20}
\* Costs the profile oracle reports for tuned configurations.
Costs == {3, 5}
\* Outcomes of analyzer.canonical_simplify(clause): IntImm(1), IntImm(0),
\* or an expression that is not an IntImm.
ClauseVals == {"IntImm1", "IntImm0", "Expr"}

VARIABLES
    \* ---- callers of the module-level functions ----
    fn_in,       \* the arguments of the pending call of a helper function
    fn_out,      \* what that call produced
    \* ---- select_implementation harness ----
    sel_in,      \* the arguments of the pending select_implementation call
    sel_out,     \* what the call produced
    \* ---- lower_call ----
    env,         \* autotvm.task.TaskExtractEnv.current
    lc,          \* the running lower_call invocation (arguments, locals, pc)
    \* ---- CompileEngine ----
    cache,       \* the engine's table of lowered functions
    shape_cache, \* the engine's table of lowered shape functions
    mutex,       \* the thread inside the engine's critical section, or 0
    thr,         \* per thread: the request it runs and where it stands
    hist         \* bookkeeping: artifacts built, requests issued, hits counted

vars == <<fn_in, fn_out, sel_in, sel_out, env, lc, cache, shape_cache, mutex, thr, hist>>
fnVars == <<fn_in, fn_out>>
selVars == <<sel_in, sel_out>>
callVars == <<env, lc>>
engineVars == <<cache, shape_cache, mutex, thr, hist>>

\* What a helper call left: pc tells whether it was made and how it ended.
FnNotCalled == [pc |-> "call", raised |-> "None", ret |-> <<>>]
FnEnded(r) ==
    [pc |-> IF r.raised # "None" THEN "raised" ELSE "returned",
     raised |-> r.raised, ret |-> r.ret]

(***************************************************************************)
(* OpImplementation, OpSpecialization, OpStrategy as the code reads them.  *)
(***************************************************************************)
\* dispatch_ctx.query(target, workload): a fallback config or a tuned one.
FallbackCfg == [is_fallback |-> TRUE, cost |-> 0]
Cfgs == {FallbackCfg} \cup {[is_fallback |-> FALSE, cost |-> c] : c \in Costs}

\* What select_implementation reads of one implementation: its plevel, the
\* workload autotvm.task.get_workload finds in its outputs ("None" when there
\* is none) and the oracle's answer for that workload (for an implementation
\* without workload, the answer the oracle would give were it asked).
ImplAttrs == [plevel : PLevels, workload : {"None", "wkl"}, cfg : Cfgs]

NoCondition == [present |-> FALSE, clauses |-> <<>>]
Conditions ==
    {NoCondition} \cup {[present |-> TRUE, clauses |-> <<c>>] : c \in ClauseVals}

\* One registration slot: the implementation's attributes and, when the slot
\* opens a new specialization, that specialization's condition.
Slots ==
    [attrs : ImplAttrs, opens : BOOLEAN, condition : Conditions]

WellFormedSlots(s) ==
    /\ Len(s) > 0 => s[1].opens
    /\ \A i \in 1..Len(s) : ~s[i].opens => s[i].condition = NoCondition

MkImpl(s, i) ==
    [name |-> i, plevel |-> s[i].attrs.plevel,
     workload |-> s[i].attrs.workload, cfg |-> s[i].attrs.cfg]

RECURSIVE Specializations(_, _, _)
\* The specializations registered by the slots i..Len(s), appended to acc.
Specializations(s, i, acc) ==
    IF i > Len(s) THEN acc
    ELSE IF s[i].opens
         THEN Specializations(s, i + 1,
                  Append(acc, [condition |-> s[i].condition,
                               implementations |-> <<MkImpl(s, i)>>]))
         ELSE Specializations(s, i + 1,
                  [acc EXCEPT ![Len(acc)].implementations =
                       Append(@, MkImpl(s, i))])

\* fstrategy(attrs, inputs, out_type, target) for every registration of at
\* most n implementations; registered = FALSE is an op without FTVMStrategy.
StrategiesUpTo(n) ==
    {[registered |-> FALSE, specializations |-> <<>>]}
    \cup {[registered |-> TRUE, specializations |-> Specializations(s, 1, <<>>)] :
             s \in {q \in UNION {[1..k -> Slots] : k \in 0..n} : WellFormedSlots(q)}}

\* Largest number of clauses in one specialized condition.
MaxClauses == 2

\* spec.condition.clauses of at most MaxClauses clauses, each written as what
\* it simplifies to.
ClauseLists == UNION {[1..k -> ClauseVals] : k \in 0..MaxClauses}
GuardedConditions ==
    {NoCondition} \cup {[present |-> TRUE, clauses |-> cl] : cl \in ClauseLists}

\* Registration slots whose implementations differ in their position only:
\* the resolver reads nothing else of an implementation.
GuardedSlots ==
    [attrs : {[plevel |-> 10, workload |-> "None", cfg |-> FallbackCfg]},
     opens : BOOLEAN, condition : GuardedConditions]

\* As StrategiesUpTo, with conditions of several clauses.
GuardedStrategiesUpTo(n) ==
    {[registered |-> FALSE, specializations |-> <<>>]}
    \cup {[registered |-> TRUE, specializations |-> Specializations(s, 1, <<>>)] :
             s \in {q \in UNION {[1..k -> GuardedSlots] : k \in 0..n} :
                       WellFormedSlots(q)}}

(***************************************************************************)
(* get_valid_implementations                                               *)
(***************************************************************************)
RECURSIVE AllClausesTrueUnlessZero(_, _)
\* Mutant of AllClausesTrue: only a clause that simplifies to a zero constant
\* fails the condition.
AllClausesTrueUnlessZero(clauses, i) ==
    IF i > Len(clauses) THEN TRUE
    ELSE IF clauses[i] # "IntImm0" THEN AllClausesTrueUnlessZero(clauses, i + 1)
         ELSE FALSE

RECURSIVE AllClausesTrue(_, _)
\* The clause loop of lines 130-136: flag stays True only if every clause
\* simplifies to an IntImm with a non-zero value.
AllClausesTrue(clauses, i) ==
    IF i > Len(clauses) THEN TRUE
    ELSE IF clauses[i] = "IntImm1" THEN AllClausesTrue(clauses, i + 1)
         ELSE FALSE

RECURSIVE ValidImpls(_, _, _)
\* The specialization loop of lines 127-142.
ValidImpls(specs, i, ret) ==
    IF i > Len(specs) THEN ret
    ELSE IF specs[i].condition.present
         THEN IF AllClausesTrue(specs[i].condition.clauses, 1)
              THEN ValidImpls(specs, i + 1, ret \o specs[i].implementations)
              ELSE ValidImpls(specs, i + 1, ret)
         ELSE ValidImpls(specs, i + 1, ret \o specs[i].implementations)

get_valid_implementations(fstrategy) ==
    IF ~fstrategy.registered
    THEN [raised |-> "AssertionError", ret |-> <<>>]
    ELSE [raised |-> "None", ret |-> ValidImpls(fstrategy.specializations, 1, <<>>)]

\* A caller invokes get_valid_implementations on an op with the pending
\* strategy.
GetValidImplementations ==
    /\ fn_in.fn = "get_valid_implementations"
    /\ fn_out.pc = "call"
    /\ fn_out' = FnEnded(get_valid_implementations(fn_in.fstrategy))
    /\ UNCHANGED <<fn_in, selVars, callVars, engineVars>>

(***************************************************************************)
(* select_implementation                                                   *)
(***************************************************************************)
\* impl.compute(attrs, inputs, out_type): the output tensors of the n-th
\* compute invocation of one select_implementation call.
compute(impl, n) == [impl |-> impl.name, call |-> n]
NoOuts == [impl |-> 0, call |-> 0]

\* Mutant of PlevelReplaces: a later candidate of equal plevel replaces.
PlevelReplacesOnTie(all_impls, best_plevel_impl, i) ==
    best_plevel_impl = 0 \/ all_impls[i].plevel >= all_impls[best_plevel_impl].plevel

\* Mutant of PlevelReplaces: every candidate replaces the one before it.
PlevelReplacesAlways(all_impls, best_plevel_impl, i) == TRUE

\* Line 187: impl replaces best_plevel_impl (an index, 0 for None).
PlevelReplaces(all_impls, best_plevel_impl, i) ==
    best_plevel_impl = 0 \/ all_impls[i].plevel > all_impls[best_plevel_impl].plevel

RECURSIVE BestPlevel(_, _, _)
\* The loop of lines 185-188; the result is an index into all_impls.
BestPlevel(all_impls, i, best_plevel_impl) ==
    IF i > Len(all_impls) THEN best_plevel_impl
    ELSE IF PlevelReplaces(all_impls, best_plevel_impl, i)
         THEN BestPlevel(all_impls, i + 1, i)
         ELSE BestPlevel(all_impls, i + 1, best_plevel_impl)

\* Mutant of CfgReplaces: the comparison is turned round.
CfgReplacesWhenCostlier(best_cfg, cfg) ==
    best_cfg.none \/ best_cfg.cost < cfg.cost

\* Mutant of CfgReplaces: a later candidate of equal cost replaces.
CfgReplacesOnTie(best_cfg, cfg) ==
    best_cfg.none \/ best_cfg.cost >= cfg.cost

\* Line 207: cfg replaces best_cfg.
CfgReplaces(best_cfg, cfg) ==
    best_cfg.none \/ best_cfg.cost > cfg.cost

\* Lines 193-196: the locals of the profile pass.
AutotvmStart ==
    [outputs |-> <<>>, best_autotvm_impl |-> 0,
     best_cfg |-> [none |-> TRUE, cost |-> 0],
     computes |-> <<>>, queries |-> <<>>]

\* Line 199: outputs[impl] = outs.
Store(outputs, name, outs) ==
    [n \in (DOMAIN outputs) \cup {name} |-> IF n = name THEN outs ELSE outputs[n]]

RECURSIVE AutotvmLoopQueriesAll(_, _, _)
\* Mutant of AutotvmLoop: the oracle is asked whether or not the outputs
\* have a workload.
AutotvmLoopQueriesAll(all_impls, i, st) ==
    IF i > Len(all_impls) THEN st
    ELSE LET impl == all_impls[i]
             outs == compute(impl, Len(st.computes) + 1)
             st1  == [st EXCEPT !.outputs = Store(st.outputs, impl.name, outs),
                                !.computes = Append(st.computes, impl.name),
                                !.queries = Append(st.queries, impl.name)]
         IN  IF impl.cfg.is_fallback
             THEN AutotvmLoopQueriesAll(all_impls, i + 1, st1)
             ELSE IF CfgReplaces(st1.best_cfg, impl.cfg)
                  THEN AutotvmLoopQueriesAll(all_impls, i + 1,
                           [st1 EXCEPT !.best_autotvm_impl = i,
                                       !.best_cfg = [none |-> FALSE,
                                                     cost |-> impl.cfg.cost]])
                  ELSE AutotvmLoopQueriesAll(all_impls, i + 1, st1)

RECURSIVE AutotvmLoop(_, _, _)
\* The loop of lines 197-209 from candidate i on.
AutotvmLoop(all_impls, i, st) ==
    IF i > Len(all_impls) THEN st
    ELSE LET impl == all_impls[i]
             outs == compute(impl, Len(st.computes) + 1)
             st1  == [st EXCEPT !.outputs = Store(st.outputs, impl.name, outs),
                                !.computes = Append(st.computes, impl.name)]
         IN  IF impl.workload = "None"
             THEN AutotvmLoop(all_impls, i + 1, st1)
             ELSE LET cfg == impl.cfg
                      st2 == [st1 EXCEPT !.queries = Append(st1.queries, impl.name)]
                  IN  IF cfg.is_fallback
                      THEN AutotvmLoop(all_impls, i + 1, st2)
                      ELSE IF CfgReplaces(st2.best_cfg, cfg)
                           THEN AutotvmLoop(all_impls, i + 1,
                                    [st2 EXCEPT !.best_autotvm_impl = i,
                                                !.best_cfg = [none |-> FALSE,
                                                              cost |-> cfg.cost]])
                           ELSE AutotvmLoop(all_impls, i + 1, st2)

Raised(kind, computes, queries) ==
    [pc |-> "raised", raised |-> kind, impl |-> 0, outs |-> NoOuts,
     computes |-> computes, queries |-> queries]

Returned(impl, outs, computes, queries) ==
    [pc |-> "returned", raised |-> "None", impl |-> impl.name, outs |-> outs,
     computes |-> computes, queries |-> queries]

\* Lines 189-191: the plevel-only return.
PlevelOnlyReturn(all_impls, best_plevel_impl) ==
    IF best_plevel_impl = 0
    THEN Raised("AttributeError", <<>>, <<>>)
    ELSE Returned(all_impls[best_plevel_impl],
                  compute(all_impls[best_plevel_impl], 1),
                  <<all_impls[best_plevel_impl].name>>, <<>>)

\* Mutant of AutotvmReturn: the fallback path computes the winner again.
AutotvmReturnRecomputes(all_impls, best_plevel_impl, st) ==
    IF st.best_autotvm_impl # 0
    THEN Returned(all_impls[st.best_autotvm_impl],
                  st.outputs[all_impls[st.best_autotvm_impl].name],
                  st.computes, st.queries)
    ELSE IF best_plevel_impl = 0
         THEN Raised("KeyError", st.computes, st.queries)
         ELSE Returned(all_impls[best_plevel_impl],
                       compute(all_impls[best_plevel_impl], Len(st.computes) + 1),
                       Append(st.computes, all_impls[best_plevel_impl].name),
                       st.queries)

\* Lines 210-212: the return after the profile pass.
AutotvmReturn(all_impls, best_plevel_impl, st) ==
    IF st.best_autotvm_impl # 0
    THEN Returned(all_impls[st.best_autotvm_impl],
                  st.outputs[all_impls[st.best_autotvm_impl].name],
                  st.computes, st.queries)
    ELSE IF best_plevel_impl = 0
         THEN Raised("KeyError", st.computes, st.queries)
         ELSE Returned(all_impls[best_plevel_impl],
                       st.outputs[all_impls[best_plevel_impl].name],
                       st.computes, st.queries)

select_implementation(fstrategy, use_autotvm) ==
    LET valid == get_valid_implementations(fstrategy)
    IN  IF valid.raised # "None"
        THEN Raised(valid.raised, <<>>, <<>>)
        ELSE LET all_impls == valid.ret
                 best_plevel_impl == BestPlevel(all_impls, 1, 0)
             IN  IF ~use_autotvm
                 THEN PlevelOnlyReturn(all_impls, best_plevel_impl)
                 ELSE AutotvmReturn(all_impls, best_plevel_impl,
                                    AutotvmLoop(all_impls, 1, AutotvmStart))

NotCalled ==
    [pc |-> "call", raised |-> "None", impl |-> 0, outs |-> NoOuts,
     computes |-> <<>>, queries |-> <<>>]

\* A caller invokes select_implementation on the pending arguments.
SelectImplementation ==
    /\ sel_out.pc = "call"
    /\ sel_out' = select_implementation(sel_in.fstrategy, sel_in.use_autotvm)
    /\ UNCHANGED <<fnVars, sel_in, callVars, engineVars>>

\* Largest number of candidates in a list handed over in two orders.
MaxCandidates == 3

\* The candidates of those lists: three plevels, and a workload that is
\* missing or tuned at one of the costs.
CandidatePLevels == {10, 20, 30}
CandidateAttrs ==
    {[plevel |-> p, workload |-> "None", cfg |-> FallbackCfg] : p \in CandidatePLevels}
    \cup {[plevel |-> p, workload |-> "wkl", cfg |-> [is_fallback |-> FALSE, cost |-> c]] :
             p \in CandidatePLevels, c \in Costs}

\* The candidates a[1], ..., a[n], named by their position.
Candidates(a) ==
    [i \in DOMAIN a |-> [name |-> i, plevel |-> a[i].plevel,
                         workload |-> a[i].workload, cfg |-> a[i].cfg]]

\* The list impls in the order perm puts it.
Permuted(impls, perm) == [i \in DOMAIN impls |-> impls[perm[i]]]

\* A strategy that resolves to the candidate list impls.
ListStrategy(impls) ==
    [registered |-> TRUE,
     specializations |-> <<[condition |-> NoCondition, implementations |-> impls]>>]

\* A caller invokes select_implementation twice, on two strategies that
\* resolve to the same candidates in two orders.
SelectImplementationTwice ==
    /\ fn_in.fn = "select_implementation"
    /\ fn_out.pc = "call"
    /\ fn_out' = FnEnded([raised |-> "None",
                          ret |-> <<select_implementation(ListStrategy(fn_in.impls),
                                                          fn_in.use_autotvm),
                                    select_implementation(ListStrategy(fn_in.permuted),
                                                          fn_in.use_autotvm)>>])
    /\ UNCHANGED <<fn_in, selVars, callVars, engineVars>>

(***************************************************************************)
(* get_shape and the types lower_call reads                                *)
(***************************************************************************)
\* Dimension values are written in base 2^16 as [hi, lo], hi * 65536 + lo,
\* so that values above the 32-bit range can be told from those inside it.
Word(hi, lo) == [hi |-> hi, lo |-> lo]

\* Mutant of LessEq: the comparison is strict.
LessThan(a, b) == a.hi < b.hi \/ (a.hi = b.hi /\ a.lo < b.lo)

LessEq(a, b) == a.hi < b.hi \/ (a.hi = b.hi /\ a.lo <= b.lo)

\* np.iinfo(np.int32).max = 2^31 - 1
INT32_MAX == Word(32767, 65535)

IntImm(dtype, val) == [node |-> "IntImm", dtype |-> dtype, value |-> val]
AnyDim == [node |-> "Any", dtype |-> "int32", value |-> Word(0, 0)]
\* te.var(name, dtype); id tells apart the variables of one get_shape call.
Var(name, dtype, id) == [node |-> "Var", dtype |-> dtype, value |-> Word(0, id), name |-> name]

RECURSIVE GetShapeFrom(_, _, _)
\* The loop of lines 82-90 from dimension i on.
GetShapeFrom(shape, i, ret) ==
    IF i > Len(shape) THEN [raised |-> "None", ret |-> ret]
    ELSE LET dim == shape[i]
         IN  IF dim.node = "IntImm"
             THEN IF LessEq(dim.value, INT32_MAX)
                  THEN GetShapeFrom(shape, i + 1, Append(ret, IntImm("int32", dim.value)))
                  ELSE [raised |-> "AssertionError", ret |-> <<>>]
             ELSE IF dim.node = "Any"
                  THEN GetShapeFrom(shape, i + 1, Append(ret, Var("any_dim", "int32", i)))
                  ELSE GetShapeFrom(shape, i + 1, Append(ret, dim))

get_shape(shape) == GetShapeFrom(shape, 1, <<>>)

\* Largest number of dimensions of a shape handed to get_shape.
MaxDims == 3

\* The dimensions of those shapes: a small constant, 2^31 - 1, 2^31, Any, and
\* a symbolic variable the shape already holds.
Dims ==
    {IntImm("int64", Word(0, 4)), IntImm("int64", INT32_MAX),
     IntImm("int64", Word(32768, 0)), AnyDim, Var("n", "int32", 0)}
Shapes == UNION {[1..k -> Dims] : k \in 0..MaxDims}

\* A caller invokes get_shape on the pending shape.
GetShape ==
    /\ fn_in.fn = "get_shape"
    /\ fn_out.pc = "call"
    /\ fn_out' = FnEnded(get_shape(fn_in.shape))
    /\ UNCHANGED <<fn_in, selVars, callVars, engineVars>>

TensorType(shape) == [kind |-> "TensorType", shape |-> shape, fields |-> <<>>]
TupleType(fields) == [kind |-> "TupleType", shape |-> <<>>, fields |-> fields]

RECURSIVE NewFields(_, _, _)
\* The loop of lines 229-233 from field i on.
NewFields(fields, i, new_fields) ==
    IF i > Len(fields) THEN [raised |-> "None", ret |-> new_fields]
    ELSE IF fields[i].kind = "TensorType"
         THEN LET sh == get_shape(fields[i].shape)
              IN  IF sh.raised # "None" THEN [raised |-> sh.raised, ret |-> <<>>]
                  ELSE NewFields(fields, i + 1, Append(new_fields, TensorType(sh.ret)))
         ELSE NewFields(fields, i + 1, Append(new_fields, fields[i]))

\* Lines 224-234: the return type with int32 shapes.
RetType(checked_type) ==
    IF checked_type.kind = "TensorType"
    THEN LET sh == get_shape(checked_type.shape)
         IN  IF sh.raised # "None" THEN [raised |-> sh.raised, ret |-> checked_type]
             ELSE [raised |-> "None", ret |-> TensorType(sh.ret)]
    ELSE IF checked_type.kind = "TupleType"
         THEN LET nf == NewFields(checked_type.fields, 1, <<>>)
              IN  IF nf.raised # "None" THEN [raised |-> nf.raised, ret |-> checked_type]
                  ELSE [raised |-> "None", ret |-> TupleType(nf.ret)]
         ELSE [raised |-> "None", ret |-> checked_type]

\* _ty.type_has_any: the type holds an Any dimension, directly or in a field.
type_has_any(type) ==
    \/ \E i \in 1..Len(type.shape) : type.shape[i].node = "Any"
    \/ \E f \in 1..Len(type.fields) :
         \E i \in 1..Len(type.fields[f].shape) : type.fields[f].shape[i].node = "Any"

RECURSIVE IsDynFrom(_, _, _)
\* The loop of lines 237-238 from argument i on.
IsDynFrom(args, i, is_dyn) ==
    IF i > Len(args) THEN is_dyn
    ELSE IsDynFrom(args, i + 1, is_dyn \/ type_has_any(args[i]))

\* Mutant of IsDyn: the argument types are not looked at.
IsDynReturnOnly(call) == type_has_any(call.checked_type)

\* Lines 236-238.
IsDyn(call) == IsDynFrom(call.args, 1, type_has_any(call.checked_type))

(***************************************************************************)
(* lower_call                                                              *)
(***************************************************************************)
\* Number of lower_call invocations a behaviour can hold.
NumCallers == 2
Callers == 1..NumCallers

Ops == {"conv2d", "add"}

\* autotvm.task.TaskExtractEnv.current: None, or a session with a tracing
\* flag and wanted_relay_ops (None or a list of ops).
NoEnv == [present |-> FALSE, tracing |-> FALSE,
          wanted_relay_ops |-> [present |-> FALSE, ops |-> {}]]
Envs ==
    {NoEnv} \cup
    [present : {TRUE}, tracing : BOOLEAN,
     wanted_relay_ops : {[present |-> FALSE, ops |-> {}],
                         [present |-> TRUE, ops |-> {"conv2d"}]}]

StaticType == TensorType(<<IntImm("int64", Word(0, 4))>>)
DynType == TensorType(<<IntImm("int64", Word(0, 4)), AnyDim>>)
\* One dimension of 2^31.
HugeType == TensorType(<<IntImm("int64", Word(32768, 0))>>)
CheckedTypes == {StaticType, DynType, HugeType, TupleType(<<StaticType, DynType>>)}
ArgLists == {<<StaticType>>, <<DynType>>, <<StaticType, DynType>>}
Calls == [op : Ops, checked_type : CheckedTypes, args : ArgLists]

\* Strategies of one unconditional specialization with at most n
\* implementations, and the op without FTVMStrategy.
PlainStrategiesUpTo(n) ==
    {[registered |-> FALSE, specializations |-> <<>>],
     [registered |-> TRUE, specializations |-> <<>>]}
    \cup {[registered |-> TRUE,
           specializations |->
               <<[condition |-> NoCondition,
                  implementations |->
                      [i \in DOMAIN a |->
                          [name |-> i, plevel |-> a[i].plevel,
                           workload |-> a[i].workload, cfg |-> a[i].cfg]]]>>] :
             a \in UNION {[1..k -> ImplAttrs] : k \in 1..n}}

NoCallInput == [op |-> "add", checked_type |-> StaticType, args |-> <<>>]
NoStrategy == [registered |-> FALSE, specializations |-> <<>>]

\* A caller that never calls. was_tracing records the tracing flag at the
\* time the calls of the behaviour were started.
CallerOff ==
    [pc |-> "off", call |-> NoCallInput, fstrategy |-> NoStrategy,
     is_dyn |-> FALSE, reenable_tracing |-> FALSE, suspends |-> FALSE,
     was_tracing |-> FALSE, raised |-> "None", sel |-> NotCalled]

\* A caller about to run lower_call(call, inputs, target) on an op whose
\* FTVMStrategy yields fstrategy.
CallerAt(call, fstrategy) ==
    [CallerOff EXCEPT !.pc = "call", !.call = call, !.fstrategy = fstrategy]

\* The same, started under the trace session e.
CallerUnder(e, call, fstrategy) ==
    [CallerAt(call, fstrategy) EXCEPT !.was_tracing = e.present /\ e.tracing]

\* What concurrent callers pass: calls of static type on either op, each
\* with a strategy of one implementation.
ConcurrentCalls == [op : Ops, checked_type : {StaticType}, args : {<<StaticType>>}]
OneImplStrategy ==
    [registered |-> TRUE,
     specializations |->
         <<[condition |-> NoCondition,
            implementations |->
                <<[name |-> 1, plevel |-> 10, workload |-> "wkl",
                   cfg |-> FallbackCfg]>>]>>]

\* Mutant of MustSuspend: the allow-list is not searched for the op.
MustSuspendAnyOp(e, op) ==
    e.present /\ e.tracing /\ e.wanted_relay_ops.present

\* Line 243-244: tracing is on and the allow-list excludes the op.
MustSuspend(e, op) ==
    /\ e.present /\ e.tracing
    /\ e.wanted_relay_ops.present /\ op \notin e.wanted_relay_ops.ops

\* Lines 218-238: the return type and is_dyn; get_shape may raise.
LowerCallEnter(c) ==
    /\ lc[c].pc = "call"
    /\ LET rt == RetType(lc[c].call.checked_type)
       IN  lc' = [lc EXCEPT
                    ![c].pc = IF rt.raised # "None" THEN "raised" ELSE "check",
                    ![c].raised = rt.raised,
                    ![c].is_dyn = IsDyn(lc[c].call),
                    ![c].suspends = MustSuspend(env, lc[c].call.op)]
    /\ UNCHANGED <<env, fnVars, selVars, engineVars>>

\* Lines 241-244: read the session and decide.
LowerCallCheckTracing(c) ==
    /\ lc[c].pc = "check"
    /\ lc' = [lc EXCEPT ![c].pc = IF MustSuspend(env, lc[c].call.op)
                                  THEN "disable" ELSE "select"]
    /\ UNCHANGED <<env, fnVars, selVars, engineVars>>

\* Lines 245-246.
LowerCallDisableTracing(c) ==
    /\ lc[c].pc = "disable"
    /\ env' = [env EXCEPT !.tracing = FALSE]
    /\ lc' = [lc EXCEPT ![c].pc = "select", ![c].reenable_tracing = TRUE]
    /\ UNCHANGED <<fnVars, selVars, engineVars>>

\* Lines 248-256: select_implementation is entered.
LowerCallSelectBegin(c) ==
    /\ lc[c].pc = "select"
    /\ lc' = [lc EXCEPT ![c].pc = "selecting"]
    /\ UNCHANGED <<env, fnVars, selVars, engineVars>>

\* Lines 248-256: select_implementation returns or raises; an exception
\* leaves lower_call at once.
LowerCallSelectEnd(c) ==
    /\ lc[c].pc = "selecting"
    /\ LET r == select_implementation(lc[c].fstrategy, ~lc[c].is_dyn)
       IN  lc' = [lc EXCEPT
                    ![c].pc = IF r.pc = "raised" THEN "raised" ELSE "reenable",
                    ![c].raised = r.raised,
                    ![c].sel = r]
    /\ UNCHANGED <<env, fnVars, selVars, engineVars>>

\* Lines 258-261.
LowerCallReturn(c) ==
    /\ lc[c].pc = "reenable"
    /\ env' = IF lc[c].reenable_tracing THEN [env EXCEPT !.tracing = TRUE] ELSE env
    /\ lc' = [lc EXCEPT ![c].pc = "returned"]
    /\ UNCHANGED <<fnVars, selVars, engineVars>>


(***************************************************************************)
(* CompileEngine: cache keys                                               *)
(***************************************************************************)
Funcs == {"f", "g"}

\* What a caller can pass as target: a target string, a Target object,
\* None (the default) or an object of another type.
StrTarget(name) == [kind |-> "str", name |-> name]
TargetObj(name) == [kind |-> "Target", name |-> name]
NoneTarget == [kind |-> "None", name |-> "None"]
OtherTarget == [kind |-> "Other", name |-> "other"]
TargetArgs ==
    {StrTarget("llvm"), StrTarget(""), TargetObj("llvm"), NoneTarget, OtherTarget}

\* What a caller can pass as source_func: a relay Function, a CCacheKey built
\* earlier, a relay expression that is no Function, or any other object.
FunctionSrc(f) == [kind |-> "Function", func |-> f, target |-> "None"]
KeySrc(f, t) == [kind |-> "CCacheKey", func |-> f, target |-> t]
ExprSrc == [kind |-> "Expr", func |-> "expr", target |-> "None"]
OtherSrc == [kind |-> "Other", func |-> "other", target |-> "None"]
SourceArgs ==
    {FunctionSrc(f) : f \in Funcs} \cup {KeySrc(f, "llvm") : f \in Funcs}
    \cup {ExprSrc, OtherSrc}

\* A CCacheKey: the source function and the target (by name; "None" for a
\* key built without target).
Key(f, t) == [source_func |-> f, target |-> t]
NoKey == Key("none", "None")
AllKeys == [source_func : Funcs, target : {"llvm", "None"}]

\* _target.create(target_str): the Target a string names, or a null target
\* for a string that names none.
create(target_str) ==
    IF target_str = "llvm" THEN TargetObj("llvm") ELSE NoneTarget

\* CCacheKey(source_func, target), lines 56-58: the constructor takes a
\* Target or None and refuses an object of another type.
CCacheKey(source_func, target) ==
    IF target.kind \in {"Target", "None"}
    THEN [raised |-> "None", key |-> Key(source_func.func, target.name)]
    ELSE [raised |-> "TypeError", key |-> NoKey]

\* Lines 67-76.
get_cache_key(source_func, target) ==
    IF source_func.kind = "Function"
    THEN IF target.kind = "str"
         THEN LET created == create(target.name)
              IN  IF created.kind = "None"
                  THEN [raised |-> "ValueError", key |-> NoKey]
                  ELSE CCacheKey(source_func, created)
         ELSE CCacheKey(source_func, target)
    ELSE IF source_func.kind # "CCacheKey"
         THEN [raised |-> "TypeError", key |-> NoKey]
         ELSE [raised |-> "None", key |-> Key(source_func.func, source_func.target)]


(***************************************************************************)
(* CompileEngine: the Python front end (lines 271-337) over the engine's   *)
(* tables, which live behind _backend.                                     *)
(***************************************************************************)
Threads == 1..NumThreads

\* A CCacheValue: the cached function (an artifact number, 0 for none) and
\* its use_count; present tells whether the table holds it.
NoValue == [present |-> FALSE, cached_func |-> 0, use_count |-> 0]
EmptyTable == [k \in AllKeys |-> NoValue]

\* What a finished request left its caller with: the exception that reached
\* it ("None" for a normal return), the original failure and the function
\* text carried in its message, the artifact returned, the items listed,
\* and the number of clears that had completed when it returned.
NoRes == [exc |-> "None", cause |-> "None", text |-> "none", art |-> 0,
          items |-> <<>>, epoch |-> 0]

\* raced records that, when the request was issued, another thread was
\* lowering the same key for the same table.
ThreadIdle ==
    [pc |-> "idle", op |-> "none", source_func |-> OtherSrc,
     target |-> NoneTarget, key |-> NoKey, raced |-> FALSE, res |-> NoRes]

\* Failures a whole-function lowering ends with (an assertion of
\* get_valid_implementations or get_shape, for one).
LoweringErrors == {"AssertionError"}

\* source_func.astext exists on relay expressions only.
HasAstext(source_func) == source_func.kind \in {"Function", "Expr"}

\* Lines 291-298: the handler of lower builds the message from the traceback
\* and source_func.astext(...) and raises RuntimeError; where astext is
\* missing, the attribute lookup raises instead.
LowerHandler(source_func, cause) ==
    IF HasAstext(source_func)
    THEN [NoRes EXCEPT !.exc = "RuntimeError", !.cause = cause,
                       !.text = source_func.func]
    ELSE [NoRes EXCEPT !.exc = "AttributeError"]

\* The exception a request ends with when cause is raised below it: lower
\* runs its handler, lower_shape_func and jit let it pass.
Failure(op, source_func, cause) ==
    IF op = "lower"
    THEN LowerHandler(source_func, cause)
    ELSE [NoRes EXCEPT !.exc = cause, !.cause = cause]

\* Two operations work on the same table.
SameTable(op1, op2) == (op1 = "lower_shape_func") = (op2 = "lower_shape_func")

\* The arguments the callers of a behaviour pass: any of the above, or only
\* functions with a Target object.
SourcesOf(callers) ==
    IF callers = "any" THEN SourceArgs
    ELSE {FunctionSrc(f) : f \in Funcs}
TargetsOf(callers) ==
    IF callers = "any" THEN TargetArgs ELSE {TargetObj("llvm")}

\* Lines 289, 301, 320: a thread calls op(source_func, target) and the key
\* is resolved; an exception ends the request before the engine is entered.
Request(t, op, source_func, target) ==
    /\ thr[t].pc \in {"idle", "done"}
    /\ hist.requests < MaxRequests
    /\ LET k == get_cache_key(source_func, target)
           base == [ThreadIdle EXCEPT !.op = op, !.source_func = source_func,
                                      !.target = target]
       IN  thr' = [thr EXCEPT ![t] =
                      IF k.raised # "None"
                      THEN [base EXCEPT !.pc = "done",
                                        !.res = [Failure(op, source_func, k.raised)
                                                    EXCEPT !.epoch = hist.clears]]
                      ELSE [base EXCEPT
                              !.pc = "backend", !.key = k.key,
                              !.raced = \E u \in Threads \ {t} :
                                           /\ thr[u].pc = "lowering"
                                           /\ thr[u].key = k.key
                                           /\ SameTable(thr[u].op, op)]]
    /\ hist' = [hist EXCEPT !.requests = @ + 1]
    /\ UNCHANGED <<cache, shape_cache, mutex, fnVars, selVars, callVars>>

\* CompileEngine.lower, lines 288-290.
Lower(t) ==
    \E source_func \in SourcesOf(hist.callers), target \in TargetsOf(hist.callers) :
        Request(t, "lower", source_func, target)

\* CompileEngine.lower_shape_func, line 301.
LowerShapeFunc(t) ==
    \E source_func \in SourcesOf(hist.callers), target \in TargetsOf(hist.callers) :
        Request(t, "lower_shape_func", source_func, target)

\* CompileEngine.jit, line 320.
Jit(t) ==
    \E source_func \in SourcesOf(hist.callers), target \in TargetsOf(hist.callers) :
        Request(t, "jit", source_func, target)

\* Mutant of MutexFree: the engine is entered whoever is inside.
MutexIgnored == TRUE

\* The engine's exclusion: one thread at a time looks up, lowers, inserts.
MutexFree == mutex = 0

\* The table an operation works on.
TableOf(op) == IF op = "lower_shape_func" THEN shape_cache ELSE cache

\* Mutant of Reused: the lookup is not counted.
ReusedUncounted(value) == value

\* value reused by one more lookup.
Reused(value) == [value EXCEPT !.use_count = @ + 1]

\* value as first inserted for artifact art.
Inserted(art) == [present |-> TRUE, cached_func |-> art, use_count |-> 0]

\* Mutant of AfterFailure: the half-built value stays in the table.
AfterFailureKeepsPartial(table, key) ==
    [table EXCEPT ![key] = [present |-> TRUE, cached_func |-> 0, use_count |-> 0]]

\* The table after a lowering for key failed.
AfterFailure(table, key) == table

\* A step that leaves the table of op as new.
SetTable(op, new) ==
    IF op = "lower_shape_func"
    THEN shape_cache' = new /\ UNCHANGED cache
    ELSE cache' = new /\ UNCHANGED shape_cache

\* _CompileEngineLower / LowerShapeFunc / JIT on a key the table holds: the
\* entry is reused and counted.
BackendHit(t) ==
    /\ thr[t].pc = "backend"
    /\ MutexFree
    /\ TableOf(thr[t].op)[thr[t].key].present
    /\ LET table == TableOf(thr[t].op)
           key == thr[t].key
       IN  /\ SetTable(thr[t].op, [table EXCEPT ![key] = Reused(table[key])])
           /\ thr' = [thr EXCEPT ![t].pc = "done",
                                 ![t].res = [NoRes EXCEPT
                                               !.art = table[key].cached_func,
                                               !.epoch = hist.clears]]
           /\ hist' = [hist EXCEPT !.hits[<<thr[t].op, key>>] = @ + 1]
    /\ UNCHANGED <<mutex, fnVars, selVars, callVars>>

\* The same on a key the table does not hold: the lowering starts.
BackendMiss(t) ==
    /\ thr[t].pc = "backend"
    /\ MutexFree
    /\ ~TableOf(thr[t].op)[thr[t].key].present
    /\ mutex' = t
    /\ thr' = [thr EXCEPT ![t].pc = "lowering"]
    /\ UNCHANGED <<cache, shape_cache, hist, fnVars, selVars, callVars>>

\* The lowering ends well: the new value is inserted and returned.
BackendLowered(t) ==
    /\ thr[t].pc = "lowering"
    /\ LET table == TableOf(thr[t].op)
           key == thr[t].key
           art == hist.arts + 1
       IN  /\ SetTable(thr[t].op, [table EXCEPT ![key] = Inserted(art)])
           /\ thr' = [thr EXCEPT ![t].pc = "done",
                                 ![t].res = [NoRes EXCEPT !.art = art,
                                                          !.epoch = hist.clears]]
           /\ hist' = [hist EXCEPT !.arts = art,
                                   !.hits = [o \in DOMAIN hist.hits |->
                                                IF o[2] = key /\ SameTable(o[1], thr[t].op)
                                                THEN 0 ELSE hist.hits[o]]]
    /\ mutex' = 0
    /\ UNCHANGED <<fnVars, selVars, callVars>>

\* The lowering fails: nothing is inserted and the failure goes up.
BackendFailed(t) ==
    /\ thr[t].pc = "lowering"
    /\ \E cause \in LoweringErrors :
         thr' = [thr EXCEPT ![t].pc = "done",
                            ![t].res = [Failure(thr[t].op, thr[t].source_func, cause)
                                           EXCEPT !.epoch = hist.clears]]
    /\ SetTable(thr[t].op, AfterFailure(TableOf(thr[t].op), thr[t].key))
    /\ mutex' = 0
    /\ UNCHANGED <<hist, fnVars, selVars, callVars>>


\* What hist.stale records when clear runs: the number of artifacts built
\* so far, the keys cache held, and the threads that were lowering.
StaleAt(arts, table, lowering) ==
    [arts |-> arts, keys |-> {k \in AllKeys : table[k].present}, inflight |-> lowering]

\* Mutant of Clear: the call returns and the tables keep their entries.
ClearLeavesEntries(t) ==
    /\ thr[t].pc \in {"idle", "done"}
    /\ hist.requests < MaxRequests
    /\ thr' = [thr EXCEPT ![t] = [ThreadIdle EXCEPT !.pc = "done", !.op = "clear",
                                     !.res = [NoRes EXCEPT !.epoch = hist.clears + 1]]]
    /\ hist' = [hist EXCEPT !.requests = @ + 1, !.clears = @ + 1,
                            !.hits = [o \in DOMAIN hist.hits |-> 0],
                            !.stale = StaleAt(hist.arts, cache,
                                              {u \in Threads : thr[u].pc = "lowering"})]
    /\ UNCHANGED <<cache, shape_cache, mutex, fnVars, selVars, callVars>>

\* _CompileEngineClear, line 325: both tables are emptied at once. A
\* lowering in flight is not waited for and goes on.
Clear(t) ==
    /\ thr[t].pc \in {"idle", "done"}
    /\ hist.requests < MaxRequests
    /\ cache' = EmptyTable
    /\ shape_cache' = EmptyTable
    /\ thr' = [thr EXCEPT ![t] = [ThreadIdle EXCEPT !.pc = "done", !.op = "clear",
                                     !.res = [NoRes EXCEPT !.epoch = hist.clears + 1]]]
    /\ hist' = [hist EXCEPT !.requests = @ + 1, !.clears = @ + 1,
                            !.hits = [o \in DOMAIN hist.hits |-> 0],
                            !.stale = StaleAt(hist.arts, cache,
                                              {u \in Threads : thr[u].pc = "lowering"})]
    /\ UNCHANGED <<mutex, fnVars, selVars, callVars>>

RECURSIVE SeqOf(_)
\* The elements of a finite set one after the other.
SeqOf(S) ==
    IF S = {} THEN <<>>
    ELSE LET x == CHOOSE y \in S : TRUE IN <<x>> \o SeqOf(S \ {x})

RECURSIVE Flat(_, _, _)
\* _CompileEngineListItems: key, value, key, value, ... of the entries held.
Flat(table, keys, i) ==
    IF i > Len(keys) THEN <<>>
    ELSE IF table[keys[i]].present
         THEN <<keys[i], table[keys[i]]>> \o Flat(table, keys, i + 1)
         ELSE Flat(table, keys, i + 1)

ListItems(table) == Flat(table, SeqOf(AllKeys), 1)

\* Line 337: the flat list as (key, value) pairs.
Pairs(res) == [i \in 1..(Len(res) \div 2) |-> <<res[2 * i - 1], res[2 * i]>>]

\* CompileEngine.items, lines 335-337.
Items(t) ==
    /\ thr[t].pc \in {"idle", "done"}
    /\ hist.requests < MaxRequests
    /\ MutexFree
    /\ LET res == ListItems(cache)
       IN  thr' = [thr EXCEPT ![t] =
                      [ThreadIdle EXCEPT
                         !.pc = "done", !.op = "items",
                         !.res = IF Len(res) % 2 = 0
                                 THEN [NoRes EXCEPT !.items = Pairs(res),
                                                    !.epoch = hist.clears]
                                 ELSE [NoRes EXCEPT !.exc = "AssertionError",
                                                    !.epoch = hist.clears]]]
    /\ hist' = [hist EXCEPT !.requests = @ + 1]
    /\ UNCHANGED <<cache, shape_cache, mutex, fnVars, selVars, callVars>>


(***************************************************************************)
(* Specification SpecSelect: select_implementation on every strategy of    *)
(* at most MaxImpls implementations, in both modes.                        *)
(***************************************************************************)
FnQuiet == fn_in = [fn |-> "none"] /\ fn_out = [FnNotCalled EXCEPT !.pc = "off"]
CallQuiet == env = NoEnv /\ lc = [c \in Callers |-> CallerOff]
HitOps == {"lower", "lower_shape_func", "jit"}
NoHist == [callers |-> "any", requests |-> 0, arts |-> 0, clears |-> 0,
           hits |-> [o \in HitOps \X AllKeys |-> 0],
           stale |-> [arts |-> 0, keys |-> {}, inflight |-> {}]]
EngineQuiet ==
    /\ cache = EmptyTable /\ shape_cache = EmptyTable /\ mutex = 0
    /\ thr = [t \in Threads |-> [ThreadIdle EXCEPT !.pc = "off"]]
    /\ hist = NoHist

InitSelect ==
    /\ sel_in \in [fstrategy : StrategiesUpTo(MaxImpls), use_autotvm : BOOLEAN]
    /\ sel_out = NotCalled
    /\ FnQuiet
    /\ CallQuiet
    /\ EngineQuiet

NextSelect == SelectImplementation

SpecSelect == InitSelect /\ [][NextSelect]_vars

\* The candidate list the pending call resolves, and whether it resolved.
all_impls_in == get_valid_implementations(sel_in.fstrategy).ret
Resolved == get_valid_implementations(sel_in.fstrategy).raised = "None"
Tuned(impl) == impl.workload # "None" /\ ~impl.cfg.is_fallback

(***************************************************************************)
(* Claims about select_implementation (checked under SpecSelect).          *)
(***************************************************************************)
Names(impls) == [i \in 1..Len(impls) |-> impls[i].name]

\* i is the first candidate among those of greatest plevel.
FirstOfGreatestPlevel(impls, i) ==
    /\ \A j \in 1..Len(impls) : impls[j].plevel <= impls[i].plevel
    /\ \A j \in 1..(i - 1) : impls[j].plevel < impls[i].plevel

\* C2: when the resolved candidate list is empty, select_implementation
\* fails with the dedicated NoImplementationError, in both modes, and no
\* compute function is invoked.
C2_EmptyRaisesNoImplementationError ==
    (sel_out.pc # "call" /\ Resolved /\ all_impls_in = <<>>)
        => (sel_out.pc = "raised" /\ sel_out.raised = "NoImplementationError"
            /\ sel_out.computes = <<>>)

\* C3: in profile-guided mode, whenever some candidate is tuned, the call
\* returns a tuned candidate whose cost is the lowest among the tuned
\* candidates, whatever the positions and the plevels.
C3_TunedLowestCostWins ==
    (sel_out.pc # "call" /\ sel_in.use_autotvm /\ Resolved
     /\ \E i \in 1..Len(all_impls_in) : Tuned(all_impls_in[i]))
        => /\ sel_out.pc = "returned"
           /\ \E k \in 1..Len(all_impls_in) :
                /\ all_impls_in[k].name = sel_out.impl
                /\ Tuned(all_impls_in[k])
                /\ \A j \in 1..Len(all_impls_in) :
                     Tuned(all_impls_in[j])
                         => all_impls_in[k].cfg.cost <= all_impls_in[j].cfg.cost

\* C3 happens: the tuned winner is the last candidate, and a tuned candidate
\* of greater plevel (and greater cost) stands before it.
C3_Witness ==
    /\ sel_out.pc = "returned" /\ sel_in.use_autotvm
    /\ Len(all_impls_in) = MaxImpls
    /\ sel_out.impl = all_impls_in[MaxImpls].name
    /\ \E j \in 1..(MaxImpls - 1) :
         /\ all_impls_in[j].plevel > all_impls_in[MaxImpls].plevel
         /\ Tuned(all_impls_in[j])

\* C4: in priority-only mode with a non-empty candidate list, the call
\* returns the first candidate of greatest plevel and invokes compute exactly
\* once, on that candidate.
C4_PlevelOnlyFirstGreatest ==
    (sel_out.pc # "call" /\ ~sel_in.use_autotvm /\ Resolved /\ all_impls_in # <<>>)
        => /\ sel_out.pc = "returned"
           /\ \E k \in 1..Len(all_impls_in) :
                /\ all_impls_in[k].name = sel_out.impl
                /\ FirstOfGreatestPlevel(all_impls_in, k)
           /\ sel_out.computes = <<sel_out.impl>>
           /\ sel_out.outs = [impl |-> sel_out.impl, call |-> 1]

\* C4 happens: two candidates share the greatest plevel and the first of
\* them is returned, the other never computed.
C4_Witness ==
    /\ sel_out.pc = "returned" /\ ~sel_in.use_autotvm
    /\ Len(all_impls_in) >= 2
    /\ all_impls_in[1].plevel = all_impls_in[2].plevel
    /\ sel_out.impl = all_impls_in[1].name
    /\ sel_out.computes = <<all_impls_in[1].name>>

\* C5: in profile-guided mode with no tuned candidate, the call returns the
\* first candidate of greatest plevel with the outputs its compute produced
\* in the profile pass, and compute was invoked once per candidate, in
\* candidate order, and not again afterwards.
C5_FallbackReusesOutputs ==
    (sel_out.pc # "call" /\ sel_in.use_autotvm /\ Resolved /\ all_impls_in # <<>>
     /\ \A i \in 1..Len(all_impls_in) : ~Tuned(all_impls_in[i]))
        => /\ sel_out.pc = "returned"
           /\ \E k \in 1..Len(all_impls_in) :
                /\ all_impls_in[k].name = sel_out.impl
                /\ FirstOfGreatestPlevel(all_impls_in, k)
                /\ sel_out.outs = [impl |-> sel_out.impl, call |-> k]
           /\ sel_out.computes = Names(all_impls_in)

\* C5 happens: no candidate is tuned, the winner by plevel is the last
\* candidate, and its outputs are those of the last compute of the pass.
C5_Witness ==
    /\ sel_out.pc = "returned" /\ sel_in.use_autotvm
    /\ Len(all_impls_in) = MaxImpls
    /\ \A i \in 1..Len(all_impls_in) : ~Tuned(all_impls_in[i])
    /\ sel_out.impl = all_impls_in[MaxImpls].name
    /\ sel_out.outs.call = MaxImpls
    /\ Len(sel_out.computes) = MaxImpls

\* name occurs in the sequence names.
Occurs(names, name) == \E i \in 1..Len(names) : names[i] = name

\* C17: in profile-guided mode a candidate without workload is computed
\* (once, at its place in candidate order) and never queried; if it is the
\* one returned, then no candidate is tuned and it is the first candidate
\* of greatest plevel, whatever the oracle would have answered for it.
C17_NoWorkloadNeverProfiled ==
    (sel_out.pc = "returned" /\ sel_in.use_autotvm /\ Resolved)
        => \A i \in 1..Len(all_impls_in) :
             all_impls_in[i].workload = "None"
                 => /\ Len(sel_out.computes) = Len(all_impls_in)
                    /\ sel_out.computes[i] = all_impls_in[i].name
                    /\ ~Occurs(sel_out.queries, all_impls_in[i].name)
                    /\ sel_out.impl = all_impls_in[i].name
                         => /\ \A j \in 1..Len(all_impls_in) : ~Tuned(all_impls_in[j])
                            /\ FirstOfGreatestPlevel(all_impls_in, i)

\* C17 happens: the first candidate has no workload, the greater plevel and
\* an oracle entry of lower cost than the tuned second candidate, which is
\* the one returned.
C17_Witness ==
    /\ sel_out.pc = "returned" /\ sel_in.use_autotvm
    /\ Len(all_impls_in) = 2
    /\ all_impls_in[1].workload = "None"
    /\ ~all_impls_in[1].cfg.is_fallback
    /\ Tuned(all_impls_in[2])
    /\ all_impls_in[1].cfg.cost < all_impls_in[2].cfg.cost
    /\ all_impls_in[1].plevel > all_impls_in[2].plevel
    /\ sel_out.impl = all_impls_in[2].name
    /\ sel_out.computes = Names(all_impls_in)
    /\ sel_out.queries = <<all_impls_in[2].name>>

\* C18: in profile-guided mode the candidate returned when some candidate
\* is tuned is the first, in candidate order, of the tuned candidates of
\* lowest cost.
C18_FirstOfLowestCostWins ==
    (sel_out.pc # "call" /\ sel_in.use_autotvm /\ Resolved
     /\ \E i \in 1..Len(all_impls_in) : Tuned(all_impls_in[i]))
        => /\ sel_out.pc = "returned"
           /\ \E k \in 1..Len(all_impls_in) :
                /\ all_impls_in[k].name = sel_out.impl
                /\ Tuned(all_impls_in[k])
                /\ \A j \in 1..Len(all_impls_in) :
                     Tuned(all_impls_in[j])
                         => \/ all_impls_in[k].cfg.cost < all_impls_in[j].cfg.cost
                            \/ (all_impls_in[k].cfg.cost = all_impls_in[j].cfg.cost
                                /\ k <= j)

\* C18 happens: two tuned candidates share the lowest cost, the second has
\* the greater plevel, and the first is returned.
C18_Witness ==
    /\ sel_out.pc = "returned" /\ sel_in.use_autotvm
    /\ Len(all_impls_in) = 2
    /\ Tuned(all_impls_in[1]) /\ Tuned(all_impls_in[2])
    /\ all_impls_in[1].cfg.cost = all_impls_in[2].cfg.cost
    /\ all_impls_in[1].plevel < all_impls_in[2].plevel
    /\ sel_out.impl = all_impls_in[1].name

(***************************************************************************)
(* Specification SpecCall: one lower_call invocation on every call, trace  *)
(* session and strategy of at most MaxCallImpls implementations.           *)
(***************************************************************************)
SelectQuiet ==
    /\ sel_in = [fstrategy |-> NoStrategy, use_autotvm |-> FALSE]
    /\ sel_out = [NotCalled EXCEPT !.pc = "off"]

InitCall ==
    /\ env \in Envs
    /\ \E call \in Calls, fstrategy \in PlainStrategiesUpTo(MaxCallImpls) :
         lc = [c \in Callers |->
                 IF c = 1 THEN CallerUnder(env, call, fstrategy) ELSE CallerOff]
    /\ FnQuiet
    /\ SelectQuiet
    /\ EngineQuiet

NextCall ==
    \E c \in Callers :
        \/ LowerCallEnter(c)
        \/ LowerCallCheckTracing(c)
        \/ LowerCallDisableTracing(c)
        \/ LowerCallSelectBegin(c)
        \/ LowerCallSelectEnd(c)
        \/ LowerCallReturn(c)

SpecCall == InitCall /\ [][NextCall]_vars

\* C1: a lower_call that starts with tracing on and an allow-list that
\* excludes its operator leaves the tracing flag on when it exits, whether
\* it returns or raises.
C1_TracingRestoredOnEveryExit ==
    \A c \in Callers :
        (lc[c].pc \in {"returned", "raised"} /\ lc[c].suspends) => env.tracing

\* The return type of call or the type of one of its arguments holds an
\* Any dimension.
Dynamic(call) ==
    \/ type_has_any(call.checked_type)
    \/ \E i \in 1..Len(call.args) : type_has_any(call.args[i])

HasWorkload(impl) == impl.workload # "None"

\* C15: a lower_call whose selection returned selected in profile-guided
\* mode (every candidate computed in order, every workload queried) exactly
\* when nothing in the call's return type and argument types is an Any
\* dimension; otherwise it selected by plevel only: no query was made and
\* compute ran once, on the implementation chosen.
C15_ProfileModeIffStatic ==
    \A c \in Callers :
        lc[c].pc \in {"reenable", "returned"}
            => LET all_impls == get_valid_implementations(lc[c].fstrategy).ret
                   r == lc[c].sel
               IN  IF Dynamic(lc[c].call)
                   THEN /\ r.queries = <<>>
                        /\ r.computes = <<r.impl>>
                        /\ \E k \in 1..Len(all_impls) :
                             /\ all_impls[k].name = r.impl
                             /\ FirstOfGreatestPlevel(all_impls, k)
                   ELSE /\ r.computes = Names(all_impls)
                        /\ r.queries = Names(SelectSeq(all_impls, HasWorkload))

\* C15 happens: only the second argument of the call is dynamic, a tuned
\* candidate of lower plevel is passed over, and nothing was queried.
C15_Witness ==
    \E c \in Callers :
        /\ lc[c].pc = "returned"
        /\ lc[c].call.checked_type = StaticType
        /\ lc[c].call.args = <<StaticType, DynType>>
        /\ LET all_impls == get_valid_implementations(lc[c].fstrategy).ret
           IN  /\ Len(all_impls) = 2
               /\ Tuned(all_impls[1])
               /\ all_impls[1].plevel < all_impls[2].plevel
               /\ lc[c].sel.impl = all_impls[2].name
        /\ lc[c].sel.queries = <<>>
        /\ lc[c].sel.computes = <<lc[c].sel.impl>>

\* The session has an allow-list and op is not in it.
Excluded(op) ==
    env.present /\ env.wanted_relay_ops.present /\ op \notin env.wanted_relay_ops.ops

\* The call of c started with no trace session, with tracing off, with a
\* session without allow-list, or on an operator the allow-list holds.
NothingToSuspend(c) ==
    \/ ~env.present
    \/ ~lc[c].was_tracing
    \/ ~env.wanted_relay_ops.present
    \/ lc[c].call.op \in env.wanted_relay_ops.ops

\* C19: a lower_call that starts with no trace session, with tracing off,
\* with no allow-list or on an allowed operator has the tracing flag at its
\* entry value at every point of the call and after it, however it ends,
\* and never notes that it has to re-enable tracing.
C19_FlagUntouchedWithoutSuspension ==
    \A c \in Callers :
        (lc[c].pc # "off" /\ NothingToSuspend(c))
            => /\ env.tracing = lc[c].was_tracing
               /\ ~lc[c].reenable_tracing

\* C19 happens: a call on an allowed operator has returned under a session
\* that traces with an allow-list, and tracing is still on.
C19_Witness ==
    \E c \in Callers :
        /\ lc[c].pc = "returned"
        /\ env.present /\ env.wanted_relay_ops.present
        /\ lc[c].call.op \in env.wanted_relay_ops.ops
        /\ lc[c].was_tracing
        /\ env.tracing

\* A call that started with tracing off under a session whose allow-list
\* excludes its operator has returned, and tracing is still off.
C19_OffStaysOff ==
    \E c \in Callers :
        /\ lc[c].pc = "returned"
        /\ Excluded(lc[c].call.op)
        /\ ~lc[c].was_tracing
        /\ ~env.tracing

(***************************************************************************)
(* Specification SpecCalls: NumCallers lower_call invocations that run     *)
(* concurrently under one trace session.                                   *)
(***************************************************************************)
InitCalls ==
    /\ env \in Envs
    /\ \E calls \in [Callers -> ConcurrentCalls] :
         lc = [c \in Callers |-> CallerUnder(env, calls[c], OneImplStrategy)]
    /\ FnQuiet
    /\ SelectQuiet
    /\ EngineQuiet

SpecCalls == InitCalls /\ [][NextCall]_vars

\* C14 (first part): while a call selects for an excluded operator, tracing
\* is off.
C14_OffWhileExcludedSelects ==
    \A c \in Callers :
        (lc[c].pc = "selecting" /\ Excluded(lc[c].call.op)) => ~env.tracing

\* C14 (second part): while a call selects for an operator that is not
\* excluded, tracing is as it was before the calls started.
C14_KeptWhileAllowedSelects ==
    \A c \in Callers :
        (lc[c].pc = "selecting" /\ ~Excluded(lc[c].call.op))
            => env.tracing = lc[c].was_tracing

\* C14 (third part): once every call has returned, tracing is as it was
\* before the calls started.
C14_RestoredWhenAllReturned ==
    (\A c \in Callers : lc[c].pc = "returned")
        => \A c \in Callers : env.tracing = lc[c].was_tracing

\* C14: concurrent lower_call invocations keep tracing off during every
\* selection for an excluded operator, never leave it off during a
\* selection for an allowed operator, and leave the flag as it was once
\* all of them have returned.
C14_ConcurrentSuspensionsIsolated ==
    /\ C14_OffWhileExcludedSelects
    /\ C14_KeptWhileAllowedSelects
    /\ C14_RestoredWhenAllReturned

(***************************************************************************)
(* Specification Spec: at most MaxRequests requests to one CompileEngine   *)
(* that starts empty, issued either by NumThreads concurrent threads that  *)
(* pass functions with a Target object, or by one thread that passes      *)
(* arguments of every form.                                                *)
(***************************************************************************)
Init ==
    /\ cache = EmptyTable
    /\ shape_cache = EmptyTable
    /\ mutex = 0
    /\ \/ /\ thr = [t \in Threads |-> ThreadIdle]
          /\ hist = [NoHist EXCEPT !.callers = "concurrent"]
       \/ /\ thr = [t \in Threads |->
                      IF t = 1 THEN ThreadIdle ELSE [ThreadIdle EXCEPT !.pc = "off"]]
          /\ hist = [NoHist EXCEPT !.callers = "any"]
    /\ FnQuiet
    /\ SelectQuiet
    /\ CallQuiet

Next ==
    \E t \in Threads :
        \/ Jit(t)
        \/ LowerShapeFunc(t)
        \/ Lower(t)
        \/ BackendHit(t)
        \/ BackendMiss(t)
        \/ BackendLowered(t)
        \/ BackendFailed(t)
        \/ Clear(t)
        \/ Items(t)

Spec == Init /\ [][Next]_vars

(***************************************************************************)
(* Claims about the CompileEngine (checked under Spec).                    *)
(***************************************************************************)
Finished(t) == thr[t].pc = "done"
ReturnedEntry(t) ==
    Finished(t) /\ thr[t].op \in HitOps /\ thr[t].res.exc = "None"
\* The threads lowering key for the table of op.
InFlight(op, key) ==
    {t \in Threads : thr[t].pc = "lowering" /\ thr[t].key = key
                     /\ SameTable(thr[t].op, op)}

\* C6: at any time at most one lowering is in flight per key and table, and
\* every artifact handed out since the last clear is the one the table
\* holds for its key, so no two requests hold different artifacts of a key.
C6_OneLoweringOneArtifactPerKey ==
    /\ \A key \in AllKeys, op \in HitOps : Cardinality(InFlight(op, key)) <= 1
    /\ \A t \in Threads :
         (ReturnedEntry(t) /\ thr[t].res.epoch = hist.clears)
             => /\ TableOf(thr[t].op)[thr[t].key].present
                /\ TableOf(thr[t].op)[thr[t].key].cached_func = thr[t].res.art

\* C6 happens: a lower request issued while another thread was lowering
\* its key has returned, with the artifact the other thread built.
C6_Witness ==
    \E t \in Threads, u \in Threads :
        /\ t # u
        /\ ReturnedEntry(t) /\ ReturnedEntry(u)
        /\ thr[t].op = "lower" /\ thr[u].op = "lower"
        /\ thr[t].raced /\ ~thr[u].raced
        /\ thr[t].key = thr[u].key
        /\ thr[t].res.art = thr[u].res.art
        /\ cache[thr[t].key].use_count = 1

\* C7: as long as only lower calls used a key since its entry was inserted,
\* the entry's use_count is the number of lower calls that found it present
\* (0 after the inserting call, one more per hit), and every lower call
\* that returned since the last clear returned that entry's artifact.
C7_UseCountCountsHits ==
    /\ \A key \in AllKeys :
         (cache[key].present /\ hist.hits[<<"jit", key>>] = 0)
             => cache[key].use_count = hist.hits[<<"lower", key>>]
    /\ \A t \in Threads :
         (ReturnedEntry(t) /\ thr[t].op = "lower" /\ thr[t].res.epoch = hist.clears)
             => cache[thr[t].key].cached_func = thr[t].res.art

\* C7 happens: an entry was inserted and then found by two lower calls.
C7_Witness ==
    \E key \in AllKeys :
        /\ cache[key].present
        /\ cache[key].use_count = 2
        /\ hist.hits[<<"lower", key>>] = 2
        /\ hist.hits[<<"jit", key>>] = 0
        /\ \E t \in Threads : ReturnedEntry(t) /\ thr[t].op = "lower"
                              /\ thr[t].key = key
                              /\ thr[t].res.art = cache[key].cached_func

\* A step in which the lowering of thread t fails.
LoweringFails(t) ==
    thr[t].pc = "lowering" /\ thr'[t].pc = "done" /\ thr'[t].res.exc # "None"

\* C8: a failed lowering leaves its table without an entry for the key and
\* with every other entry as it was, leaves the other table alone, and a
\* request that looks up a key without entry starts a lowering.
C8_FailureLeavesNoEntry ==
    [][\A t \in Threads :
         /\ LoweringFails(t)
              => /\ ~(TableOf(thr[t].op)[thr[t].key].present)'
                 /\ \A key \in AllKeys \ {thr[t].key} :
                      /\ cache'[key] = cache[key]
                      /\ shape_cache'[key] = shape_cache[key]
                 /\ thr[t].op = "lower_shape_func" => cache' = cache
                 /\ thr[t].op # "lower_shape_func" => shape_cache' = shape_cache
         /\ (thr[t].pc = "backend" /\ thr'[t].pc # "backend"
             /\ ~TableOf(thr[t].op)[thr[t].key].present)
              => thr'[t].pc = "lowering"]_vars

\* C8 happens: a lowering of a key failed, the key has no entry while
\* another key has one, and a later request is lowering the key afresh.
C8_Witness ==
    \E t \in Threads, u \in Threads :
        /\ Finished(t) /\ thr[t].op = "lower"
        /\ thr[t].res.cause \in LoweringErrors
        /\ ~cache[thr[t].key].present
        /\ \E key \in AllKeys : cache[key].present
        /\ thr[u].pc = "lowering" /\ thr[u].op = "lower"
        /\ thr[u].key = thr[t].key

\* C9: every failure of lower on a source function or a pre-built cache key
\* reaches the caller as one RuntimeError that carries the original cause
\* and the text of the source function.
C9_FailureWrappedWithSourceText ==
    \A t \in Threads :
        (Finished(t) /\ thr[t].op = "lower"
         /\ thr[t].source_func.kind \in {"Function", "CCacheKey"}
         /\ thr[t].res.exc # "None")
            => /\ thr[t].res.exc = "RuntimeError"
               /\ thr[t].res.cause # "None"
               /\ thr[t].res.text = thr[t].source_func.func

\* The target passed names no target: it is missing, of another type, or a
\* string no target is created from.
NoValidTarget(target) ==
    \/ target.kind \in {"None", "Other"}
    \/ target.kind = "str" /\ create(target.name).kind = "None"

\* The caller was told of an invalid key: by the TypeError or ValueError of
\* _get_cache_key itself, or by the RuntimeError lower wraps it in.
InvalidKeyReported(res) ==
    \/ res.exc \in {"TypeError", "ValueError"}
    \/ res.exc = "RuntimeError" /\ res.cause \in {"TypeError", "ValueError"}

\* C10: a lower, lower_shape_func or jit request whose source is neither a
\* function nor a cache key, or is a function without a valid target
\* (missing, or of the wrong type), ends with the invalid-key error without
\* entering the engine, so no lowering starts and the tables stay as they
\* were.
C10_InvalidKeyRejected ==
    \A t \in Threads :
        (thr[t].op \in HitOps
         /\ \/ thr[t].source_func.kind \notin {"Function", "CCacheKey"}
            \/ thr[t].source_func.kind = "Function" /\ NoValidTarget(thr[t].target))
            => /\ Finished(t)
               /\ InvalidKeyReported(thr[t].res)

\* t finished after the last clear completed.
AfterLastClear(t) == Finished(t) /\ thr[t].res.epoch = hist.clears

\* value was inserted after the last clear (artifacts are numbered in the
\* order they are built).
Fresh(value) == value.cached_func > hist.stale.arts

\* C13: once a clear has completed, no table holds and no request is handed
\* an entry made before it: items lists none (nothing at all until a
\* lowering has ended after the clear), a lower, lower_shape_func or jit
\* that returns was served an artifact built after the clear, and an entry
\* no lookup has found since its insertion has use_count 0. This covers a
\* clear that ran while a lowering was in flight.
C13_ClearLeavesNoResidue ==
    /\ \A key \in AllKeys :
         /\ cache[key].present => Fresh(cache[key])
         /\ shape_cache[key].present => Fresh(shape_cache[key])
         /\ (cache[key].present /\ hist.hits[<<"lower", key>>] = 0
             /\ hist.hits[<<"jit", key>>] = 0) => cache[key].use_count = 0
    /\ \A t \in Threads :
         /\ (AfterLastClear(t) /\ ReturnedEntry(t)) => thr[t].res.art > hist.stale.arts
         /\ (AfterLastClear(t) /\ thr[t].op = "items")
              => /\ thr[t].res.exc = "None"
                 /\ \A i \in 1..Len(thr[t].res.items) : Fresh(thr[t].res.items[i][2])
                 /\ hist.arts = hist.stale.arts => thr[t].res.items = <<>>

\* C13 happens: a key that cache held when clear ran has been lowered
\* again by a request that returned the new artifact, and the new entry has
\* use_count 0.
C13_Witness ==
    /\ hist.clears > 0
    /\ \E t \in Threads, key \in hist.stale.keys :
         /\ AfterLastClear(t) /\ ReturnedEntry(t)
         /\ thr[t].op = "lower" /\ thr[t].key = key
         /\ cache[key].present
         /\ cache[key].cached_func = thr[t].res.art
         /\ thr[t].res.art > hist.stale.arts
         /\ cache[key].use_count = 0

\* A clear ran while a lowering was in flight; that lowering has ended
\* since and its caller holds the entry now in the table.
C13_InFlightAtClear ==
    \E t \in hist.stale.inflight :
        /\ AfterLastClear(t) /\ ReturnedEntry(t)
        /\ hist.stale.keys # {}
        /\ TableOf(thr[t].op)[thr[t].key].cached_func = thr[t].res.art

\* items was called after a clear that removed entries, and listed nothing.
C13_ItemsEmptyAfterClear ==
    \E t \in Threads :
        /\ AfterLastClear(t) /\ thr[t].op = "items"
        /\ hist.clears > 0 /\ hist.stale.keys # {}
        /\ thr[t].res.items = <<>>

(***************************************************************************)
(* Specification SpecResolve: get_valid_implementations on every strategy  *)
(* of at most MaxImpls implementations whose conditions have at most       *)
(* MaxClauses clauses.                                                     *)
(***************************************************************************)
InitResolve ==
    /\ \E fstrategy \in GuardedStrategiesUpTo(MaxImpls) :
         fn_in = [fn |-> "get_valid_implementations", fstrategy |-> fstrategy]
    /\ fn_out = FnNotCalled
    /\ SelectQuiet
    /\ CallQuiet
    /\ EngineQuiet

NextResolve == GetValidImplementations

SpecResolve == InitResolve /\ [][NextResolve]_vars

\* The guard of spec is absent, or each of its clauses is a true constant.
GuardHolds(spec) ==
    \/ ~spec.condition.present
    \/ \A j \in 1..Len(spec.condition.clauses) : spec.condition.clauses[j] = "IntImm1"

\* impl is one of the elements of the list ret.
Listed(ret, impl) == \E i \in 1..Len(ret) : ret[i] = impl

\* C11: for a registered strategy, get_valid_implementations returns the
\* implementations of exactly the specializations whose guard is absent or
\* has only clauses that simplify to a true constant, each once, in
\* specialization order and registered order (the order of their names); a
\* specialization with a false or non-constant clause contributes none.
C11_GuardedSpecializationsAllOrNothing ==
    (fn_in.fn = "get_valid_implementations" /\ fn_out.pc # "call"
     /\ fn_in.fstrategy.registered)
        => LET specs == fn_in.fstrategy.specializations
               ret == fn_out.ret
           IN  /\ fn_out.pc = "returned"
               /\ \A i \in 1..(Len(ret) - 1) : ret[i].name < ret[i + 1].name
               /\ \A i \in 1..Len(ret) :
                    \E s \in 1..Len(specs) : Listed(specs[s].implementations, ret[i])
               /\ \A s \in 1..Len(specs) :
                    \A k \in 1..Len(specs[s].implementations) :
                        Listed(ret, specs[s].implementations[k]) <=> GuardHolds(specs[s])

\* C11 happens: a specialization whose first clause is true and whose second
\* is not contributes nothing, while a guarded sibling contributes.
C11_Witness ==
    /\ fn_in.fn = "get_valid_implementations" /\ fn_out.pc = "returned"
    /\ LET specs == fn_in.fstrategy.specializations
       IN  \E s \in 1..Len(specs), u \in 1..Len(specs) :
             /\ specs[s].condition.present
             /\ Len(specs[s].condition.clauses) = 2
             /\ specs[s].condition.clauses[1] = "IntImm1"
             /\ specs[s].condition.clauses[2] = "Expr"
             /\ ~Listed(fn_out.ret, specs[s].implementations[1])
             /\ specs[u].condition.present
             /\ Len(specs[u].condition.clauses) = 2
             /\ fn_out.ret = specs[u].implementations

(***************************************************************************)
(* Specification SpecOrder: select_implementation on every list of at      *)
(* most MaxCandidates candidates and on each of its permutations, in both  *)
(* modes.                                                                  *)
(***************************************************************************)
InitOrder ==
    /\ \E k \in 1..MaxCandidates :
         \E a \in [1..k -> CandidateAttrs], perm \in Permutations(1..k),
            use_autotvm \in BOOLEAN :
             fn_in = [fn |-> "select_implementation",
                      impls |-> Candidates(a),
                      permuted |-> Permuted(Candidates(a), perm),
                      use_autotvm |-> use_autotvm]
    /\ fn_out = FnNotCalled
    /\ SelectQuiet
    /\ CallQuiet
    /\ EngineQuiet

NextOrder == SelectImplementationTwice

SpecOrder == InitOrder /\ [][NextOrder]_vars

\* No two candidates share a plevel, and no two tuned candidates a cost.
NoTies(impls) ==
    \A i \in 1..Len(impls), j \in 1..Len(impls) :
        i # j => /\ impls[i].plevel # impls[j].plevel
                 /\ (Tuned(impls[i]) /\ Tuned(impls[j]))
                      => impls[i].cfg.cost # impls[j].cfg.cost

\* C16: for a candidate list without ties in plevel and in tuned cost,
\* select_implementation returns the same implementation for the list and
\* for every permutation of it, in both modes.
C16_OrderOnlyBreaksTies ==
    (fn_in.fn = "select_implementation" /\ fn_out.pc # "call" /\ NoTies(fn_in.impls))
        => /\ fn_out.ret[1].pc = "returned"
           /\ fn_out.ret[2].pc = "returned"
           /\ fn_out.ret[1].impl = fn_out.ret[2].impl

\* C16 happens: three candidates without ties, the tuned winner is last in
\* one order and first in the other, and the candidate of greatest plevel
\* is another one.
C16_Witness ==
    /\ fn_in.fn = "select_implementation" /\ fn_out.pc = "returned"
    /\ fn_in.use_autotvm
    /\ Len(fn_in.impls) = 3
    /\ NoTies(fn_in.impls)
    /\ fn_in.permuted[1] = fn_in.impls[3]
    /\ fn_out.ret[1].impl = fn_in.impls[3].name
    /\ fn_out.ret[2].impl = fn_in.impls[3].name
    /\ fn_in.impls[1].plevel > fn_in.impls[3].plevel
    /\ Tuned(fn_in.impls[1])

(***************************************************************************)
(* Specification SpecShape: get_shape on every shape of at most MaxDims    *)
(* dimensions.                                                             *)
(***************************************************************************)
InitShape ==
    /\ \E shape \in Shapes : fn_in = [fn |-> "get_shape", shape |-> shape]
    /\ fn_out = FnNotCalled
    /\ SelectQuiet
    /\ CallQuiet
    /\ EngineQuiet

NextShape == GetShape

SpecShape == InitShape /\ [][NextShape]_vars

\* dim is a concrete dimension of value 2^31 = 32768 * 2^16 or more.
Overflows(dim) == dim.node = "IntImm" /\ dim.value.hi >= 32768

\* C12: get_shape fails with the assertion on the 32-bit range exactly when
\* some concrete dimension is 2^31 or more; otherwise it returns as many
\* dimensions as it was given, in their order: a concrete dimension as the
\* same value typed int32, an Any dimension as an int32 variable that is
\* equal to no other dimension of the result, any other dimension as it is.
C12_ShapeNormalizedWithinInt32 ==
    (fn_in.fn = "get_shape" /\ fn_out.pc # "call")
        => LET shape == fn_in.shape
               ret == fn_out.ret
           IN  IF \E i \in 1..Len(shape) : Overflows(shape[i])
               THEN fn_out.pc = "raised" /\ fn_out.raised = "AssertionError"
               ELSE /\ fn_out.pc = "returned"
                    /\ Len(ret) = Len(shape)
                    /\ \A i \in 1..Len(shape) :
                         CASE shape[i].node = "IntImm" ->
                                  /\ ret[i].node = "IntImm"
                                  /\ ret[i].dtype = "int32"
                                  /\ ret[i].value = shape[i].value
                           [] shape[i].node = "Any" ->
                                  /\ ret[i].node = "Var"
                                  /\ ret[i].dtype = "int32"
                                  /\ \A j \in 1..Len(ret) : j # i => ret[j] # ret[i]
                           [] OTHER -> ret[i] = shape[i]

\* C12 happens: a shape with a dimension of 2^31 - 1 and two Any dimensions
\* is normalized, and the two variables differ.
C12_Witness ==
    /\ fn_in.fn = "get_shape" /\ fn_out.pc = "returned"
    /\ Len(fn_in.shape) = 3
    /\ fn_in.shape[1] = AnyDim
    /\ fn_in.shape[2] = IntImm("int64", INT32_MAX)
    /\ fn_in.shape[3] = AnyDim
    /\ fn_out.ret[2] = IntImm("int32", INT32_MAX)
    /\ fn_out.ret[1].node = "Var" /\ fn_out.ret[3].node = "Var"
    /\ fn_out.ret[1] # fn_out.ret[3]

====
